---- MODULE Spec2Model ----
(***************************************************************************)
(* A model of src/health-old.go: AdminClient.Inspect together with the     *)
(* buffered reader and the closeWrapper stream it hands back, and the      *)
(* capacity accessors of ServerDiskHwInfo and the accessors of             *)
(* HealthInfoV2.                                                           *)
(*                                                                         *)
(* Go values are represented as follows.  A nil slice, map or pointer is   *)
(* Nil (the empty tuple) and a non-nil value x is Some(x), so a nil slice  *)
(* and an empty non-nil slice stay different.  A string or a byte slice is *)
(* a sequence of one-character strings or of numbers 0..255.  An error is  *)
(* a string and NoErr is the nil error.                                    *)
(***************************************************************************)
EXTENDS Integers, Sequences, FiniteSets, TLC

VARIABLES
    pc,         \* where the call of Inspect (and then its caller) stands
    d,          \* the InspectOptions argument
    calls,      \* the executor calls issued so far, (method, reqData) each
    resp,       \* the response the executor returned, and its body
    rdpos,      \* how many bytes of resp.Body have been read from it
    bodyCloses, \* how many times the response body was released
    bior,       \* the bufio.Reader wrapped around resp.Body
    key,        \* Inspect's named result key
    n,          \* io.ReadFull's count of key bytes read so far
    ret,        \* what Inspect returned: (key, c, err)
    received,   \* the bytes the caller has read from the returned stream
    lastErr,    \* the error of the caller's latest Read
    hw,         \* a ServerDiskHwInfo record (its Usage list)
    out,        \* the latest capacity accessor called and what it gave
    info,       \* a HealthInfoV2 report
    got         \* the latest HealthInfoV2 accessor called and what it gave

vars == <<pc, d, calls, resp, rdpos, bodyCloses, bior, key, n, ret,
          received, lastErr, hw, out, info, got>>

inspectVars == <<pc, d, calls, resp, rdpos, bodyCloses, bior, key, n, ret,
                 received, lastErr>>

-----------------------------------------------------------------------------
(* Bounds of the model. *)

\* The most bytes a response body holds after its discriminator byte and,
\* in format 1, its key.
MaxPayload == 3

\* The longest Usage list of a ServerDiskHwInfo.
MaxUsage == 3

-----------------------------------------------------------------------------
(* Program constants. *)

KeyLen == 32
BufSize == 4096
StatusOK == 200

-----------------------------------------------------------------------------
(* Go's nil and non-nil values, errors. *)

Nil == <<>>
Some(x) == <<x>>

NoErr == "nil"
EOF == "EOF"
ErrUnexpectedEOF == "unexpected EOF"
ErrInvalidUnreadByte == "bufio: invalid use of UnreadByte"
ErrUnknownVersion == "unknown data version"
ErrConnReset == "connection reset"
ErrTransport == "transport error"
ErrResponse == "ErrorResponse"

Min(a, b) == IF a <= b THEN a ELSE b

-----------------------------------------------------------------------------
(* Text: printable ASCII, base64.StdEncoding and url.QueryEscape. *)

\* Character codes (ASCII) of the characters that strings of the model hold.
Digits == << "0", "1", "2", "3", "4", "5", "6", "7", "8", "9" >>

Upper ==
    << "A", "B", "C", "D", "E", "F", "G", "H", "I", "J", "K", "L", "M", "N",
       "O", "P", "Q", "R", "S", "T", "U", "V", "W", "X", "Y", "Z" >>

Lower ==
    << "a", "b", "c", "d", "e", "f", "g", "h", "i", "j", "k", "l", "m", "n",
       "o", "p", "q", "r", "s", "t", "u", "v", "w", "x", "y", "z" >>

Range(s) == { s[i] : i \in 1..Len(s) }

IndexOf(s, c) == CHOOSE i \in 1..Len(s) : s[i] = c

CharCode(c) ==
    IF c \in Range(Digits) THEN 47 + IndexOf(Digits, c)
    ELSE IF c \in Range(Upper) THEN 64 + IndexOf(Upper, c)
    ELSE IF c \in Range(Lower) THEN 96 + IndexOf(Lower, c)
    ELSE CASE c = " " -> 32
           [] c = "%" -> 37
           [] c = "&" -> 38
           [] c = "+" -> 43
           [] c = "-" -> 45
           [] c = "." -> 46
           [] c = "/" -> 47
           [] c = "=" -> 61
           [] c = "_" -> 95
           [] c = "~" -> 126

\* Lexicographic order on strings by character code, as sort.Strings orders.
RECURSIVE StrLess(_, _)
StrLess(s, t) ==
    IF t = <<>> THEN FALSE
    ELSE IF s = <<>> THEN TRUE
    ELSE IF s[1] # t[1] THEN CharCode(s[1]) < CharCode(t[1])
    ELSE StrLess(Tail(s), Tail(t))

\* The alphabet of base64.StdEncoding; the padding character is "=".
B64Alphabet == Upper \o Lower \o Digits \o << "+", "/" >>

B64(v) == B64Alphabet[v + 1]

\* base64.StdEncoding.EncodeToString: three bytes give four characters, a
\* remainder of one or two bytes gives two or three characters and padding.
RECURSIVE EncodeToString(_)
EncodeToString(bs) ==
    IF Len(bs) = 0 THEN <<>>
    ELSE IF Len(bs) = 1 THEN
        << B64(bs[1] \div 4), B64((bs[1] % 4) * 16), "=", "=" >>
    ELSE IF Len(bs) = 2 THEN
        << B64(bs[1] \div 4), B64(((bs[1] % 4) * 16) + (bs[2] \div 16)),
           B64((bs[2] % 16) * 4), "=" >>
    ELSE
        << B64(bs[1] \div 4), B64(((bs[1] % 4) * 16) + (bs[2] \div 16)),
           B64(((bs[2] % 16) * 4) + (bs[3] \div 64)), B64(bs[3] % 64) >>
        \o EncodeToString(SubSeq(bs, 4, Len(bs)))

HexDigits == Digits \o << "A", "B", "C", "D", "E", "F" >>

\* url.QueryEscape leaves letters, digits and - _ . ~ alone.
Unreserved ==
    Range(Digits) \cup Range(Upper) \cup Range(Lower) \cup { "-", "_", ".", "~" }

\* url.QueryEscape: a space becomes "+", any other reserved character
\* becomes %XX with upper-case hexadecimal digits.
RECURSIVE QueryEscape(_)
QueryEscape(s) ==
    IF s = <<>> THEN <<>>
    ELSE
        LET c == s[1]
            e == IF c \in Unreserved THEN << c >>
                 ELSE IF c = " " THEN << "+" >>
                 ELSE << "%", HexDigits[(CharCode(c) \div 16) + 1],
                         HexDigits[(CharCode(c) % 16) + 1] >>
        IN  e \o QueryEscape(Tail(s))

\* The keys of a url.Values in sort.Strings order.
RECURSIVE SortedKeys(_)
SortedKeys(ks) ==
    IF ks = {} THEN <<>>
    ELSE
        LET k == CHOOSE x \in ks : \A y \in ks \ {x} : StrLess(x, y)
        IN  << k >> \o SortedKeys(ks \ {k})

\* url.Values.Encode: "key=value" pairs in key order, joined by "&", keys
\* and values escaped.  Every key of the form holds one value here.
RECURSIVE EncodePairs(_, _)
EncodePairs(form, ks) ==
    IF ks = <<>> THEN <<>>
    ELSE
        QueryEscape(ks[1]) \o << "=" >> \o QueryEscape(form[ks[1]])
        \o (IF Len(ks) > 1 THEN << "&" >> ELSE <<>>)
        \o EncodePairs(form, Tail(ks))

Encode(form) == EncodePairs(form, SortedKeys(DOMAIN form))

-----------------------------------------------------------------------------
(* The request: lines 467-490 of Inspect. *)

Volume == << "v", "o", "l", "u", "m", "e" >>
File == << "f", "i", "l", "e" >>
PublicKeyParam == << "p", "u", "b", "l", "i", "c", "-", "k", "e", "y" >>

MethodGet == "GET"
MethodPost == "POST"
ContentType == "Content-Type"
FormURLEncoded == "application/x-www-form-urlencoded"
RelPath == "adminAPIPrefix/inspect-data"

\* The InspectOptions values of the model: Volume and File hold characters
\* that url.QueryEscape rewrites; PublicKey is nil, empty but non-nil, or
\* one to three bytes (whose base64 text holds "+", "/" and "=").
Volumes == { << "m", "y", " ", "b" >> }
Files == { << "a", "/", "b", "&", "c", "=" >> }
PublicKeys ==
    { Nil, Some(<<>>), Some(<< 251 >>), Some(<< 255, 239 >>),
      Some(<< 0, 16, 131 >>) }

InspectOptions ==
    { [Volume |-> v, File |-> f, PublicKey |-> k] :
        v \in Volumes, f \in Files, k \in PublicKeys }

\* A mutant: len(d.PublicKey) > 0 in place of d.PublicKey != nil.
HasPublicKeyNonEmpty(o) == o.PublicKey # Nil /\ Len(o.PublicKey[1]) > 0

\* d.PublicKey != nil
HasPublicKey(o) == o.PublicKey # Nil

\* form.Set of volume, file and, with a public key, public-key.
Form(o) ==
    [k \in { Volume, File } \cup
           (IF HasPublicKey(o) THEN { PublicKeyParam } ELSE {}) |->
        IF k = Volume THEN o.Volume
        ELSE IF k = File THEN o.File
        ELSE EncodeToString(o.PublicKey[1])]

\* method and reqData as line 492 passes them to the executor.
Request(o) ==
    IF HasPublicKey(o) THEN
        [method |-> MethodPost,
         reqData |->
            [relPath |-> RelPath,
             customHeaders |-> Some([h \in { ContentType } |-> FormURLEncoded]),
             content |-> Some(Encode(Form(o))),
             queryValues |-> Nil]]
    ELSE
        [method |-> MethodGet,
         reqData |->
            [relPath |-> RelPath,
             customHeaders |-> Nil,
             content |-> Nil,
             queryValues |-> Some(Form(o))]]

-----------------------------------------------------------------------------
(* The response and its body. *)

\* Format discriminators the server may send: the two known ones, their
\* neighbours 0 and 3, and 255.
Formats == { 0, 1, 2, 3, 255 }

\* Byte i after the discriminator; the bytes of a body differ pairwise, so
\* a lost, repeated or displaced byte shows.
PatByte(i) == ((i * 37) + 11) % 256

\* The empty body; a discriminator and a payload; discriminator 1, a key
\* whole or cut short, and after a whole key a payload.
Bodies ==
    { <<>> } \cup
    { << f >> \o [i \in 1..len |-> PatByte(i)] :
        f \in Formats, len \in 0..MaxPayload } \cup
    { << 1 >> \o [i \in 1..len |-> PatByte(i)] :
        len \in 0..(KeyLen + MaxPayload) }

Statuses == { StatusOK, 206, 403, 500 }

NoResp == [present |-> FALSE, StatusCode |-> 0, Body |-> <<>>, endErr |-> EOF]

\* A body ends with EOF, or breaks off with an I/O error (the connection is
\* reset, the context is cancelled) after the bytes it holds.
Responses ==
    { [present |-> TRUE, StatusCode |-> s, Body |-> b, endErr |-> e] :
        s \in { StatusOK }, b \in Bodies, e \in { EOF, ErrConnReset } }
    \cup
    { [present |-> TRUE, StatusCode |-> s, Body |-> b, endErr |-> EOF] :
        s \in Statuses \ { StatusOK }, b \in { x \in Bodies : Len(x) <= 2 } }

\* adm.executeMethod: a transport error, or a response.
executeMethod ==
    { [err |-> ErrTransport, resp |-> NoResp] }
    \cup { [err |-> NoErr, resp |-> r] : r \in Responses }

\* httpRespToErrorResponse: the error derived from a non-200 response.
httpRespToErrorResponse(r) == ErrResponse

\* closeResponse releases the response body: one more release.
closeResponse(count) == count + 1

\* resp.Body.Read(p) with len(p) = cap > 0 when pos bytes were read before:
\* any positive number of the bytes left that fit, or all of them together
\* with the end of the body; at the end, no byte and the end's error.
BodyRead(pos, cap) ==
    LET rem == Len(resp.Body) - pos
    IN  { [n |-> k, err |-> NoErr] : k \in 1..Min(cap, rem) }
        \cup (IF rem <= cap THEN { [n |-> rem, err |-> resp.endErr] } ELSE {})

Chunk(pos, k) == SubSeq(resp.Body, pos + 1, pos + k)

-----------------------------------------------------------------------------
(* bufio.Reader, as Inspect and the returned stream use it.  buf holds the *)
(* bytes buf[0:w] of the Go buffer, r and w are the Go indices.            *)

NoReader ==
    [present |-> FALSE, size |-> 0, buf |-> <<>>, r |-> 0, w |-> 0,
     err |-> NoErr, lastByte |-> -1]

NewReaderSize(size) ==
    [present |-> TRUE, size |-> size, buf |-> <<>>, r |-> 0, w |-> 0,
     err |-> NoErr, lastByte |-> -1]

\* b.fill: slide the unread bytes to the front, then read once into the rest
\* (the body never gives zero bytes without an error, so once is enough).
fill(b, pos) ==
    LET slid == IF b.r > 0
                THEN [b EXCEPT !.buf = SubSeq(b.buf, b.r + 1, b.w),
                               !.w = b.w - b.r, !.r = 0]
                ELSE b
    IN  { [b |-> [slid EXCEPT !.buf = slid.buf \o Chunk(pos, u.n),
                              !.w = slid.w + u.n, !.err = u.err],
           pos |-> pos + u.n] :
            u \in BodyRead(pos, slid.size - slid.w) }

\* The end of ReadByte's loop: the next buffered byte, or b.readErr().
ReadByteBuffered(b, pos) ==
    IF b.r # b.w
    THEN [b |-> [b EXCEPT !.r = b.r + 1, !.lastByte = b.buf[b.r + 1]],
          pos |-> pos, c |-> b.buf[b.r + 1], err |-> NoErr]
    ELSE [b |-> [b EXCEPT !.err = NoErr], pos |-> pos, c |-> 0, err |-> b.err]

\* b.ReadByte
ReadByte(b, pos) ==
    IF b.r # b.w \/ b.err # NoErr
    THEN { ReadByteBuffered(b, pos) }
    ELSE { ReadByteBuffered(f.b, f.pos) : f \in fill(b, pos) }

\* A mutant: b.UnreadByte without the step back.
UnreadByteKeepsPosition(b) ==
    IF b.lastByte < 0 \/ (b.r = 0 /\ b.w > 0)
    THEN [b |-> b, err |-> ErrInvalidUnreadByte]
    ELSE [b |-> [b EXCEPT !.lastByte = -1], err |-> NoErr]

\* b.UnreadByte
UnreadByte(b) ==
    IF b.lastByte < 0 \/ (b.r = 0 /\ b.w > 0)
    THEN [b |-> b, err |-> ErrInvalidUnreadByte]
    ELSE IF b.r > 0
    THEN [b |-> [b EXCEPT !.r = b.r - 1, !.buf[b.r] = b.lastByte,
                          !.lastByte = -1],
          err |-> NoErr]
    ELSE [b |-> [b EXCEPT !.w = 1, !.buf = << b.lastByte >>, !.lastByte = -1],
          err |-> NoErr]

\* The copy that ends b.Read: as many buffered bytes as p takes.
ReadCopy(b, pos, lenp) ==
    LET m == Min(lenp, b.w - b.r)
    IN  [b |-> [b EXCEPT !.r = b.r + m, !.lastByte = b.buf[b.r + m]],
         pos |-> pos, data |-> SubSeq(b.buf, b.r + 1, b.r + m), err |-> NoErr]

\* b.Read(p) with len(p) = lenp
Read(b, pos, lenp) ==
    IF lenp = 0 THEN
        IF b.w - b.r > 0
        THEN { [b |-> b, pos |-> pos, data |-> <<>>, err |-> NoErr] }
        ELSE { [b |-> [b EXCEPT !.err = NoErr], pos |-> pos, data |-> <<>>,
                err |-> b.err] }
    ELSE IF b.r # b.w THEN { ReadCopy(b, pos, lenp) }
    ELSE IF b.err # NoErr THEN
        { [b |-> [b EXCEPT !.err = NoErr], pos |-> pos, data |-> <<>>,
           err |-> b.err] }
    ELSE IF lenp >= b.size THEN
        \* a large read with an empty buffer goes to the body directly
        { [b |-> [b EXCEPT !.lastByte =
                        IF u.n > 0 THEN resp.Body[pos + u.n] ELSE b.lastByte],
           pos |-> pos + u.n, data |-> Chunk(pos, u.n), err |-> u.err] :
            u \in BodyRead(pos, lenp) }
    ELSE
        \* one read into the buffer, then the copy
        { IF u.n = 0
          THEN [b |-> [b EXCEPT !.r = 0, !.w = 0, !.buf = <<>>],
                pos |-> pos, data |-> <<>>, err |-> u.err]
          ELSE ReadCopy([b EXCEPT !.r = 0, !.w = u.n,
                                  !.buf = Chunk(pos, u.n), !.err = u.err],
                        pos + u.n, lenp) :
            u \in BodyRead(pos, b.size) }

-----------------------------------------------------------------------------
(* Inspect, lines 466-529, and the closeWrapper it returns, lines 531-534. *)

\* What the caller asks of one Read of the returned stream: len(p).
CallerReadSizes == { 0, 1, 3, BufSize }

NoReturn == [key |-> Nil, c |-> FALSE, err |-> NoErr]

\* A mutant: a failing return that hands the named result key back.
ReturnFailKeepsKey(e) == [key |-> key, c |-> FALSE, err |-> e]

\* return nil, nil, err
ReturnFail(e) == [key |-> Nil, c |-> FALSE, err |-> e]

\* return key, &closeWrapper{Reader: bior, Closer: resp.Body}, nil
ReturnBody(k) == [key |-> k, c |-> TRUE, err |-> NoErr]

\* A mutant: only statuses from 400 on are failures.
StatusFailsFrom400(code) == code >= 400

\* resp.StatusCode != http.StatusOK
StatusFails(code) == code # StatusOK

\* A mutant: format 0 is taken for format 2.
FormatCaseZeroAsTwo(format) ==
    CASE format = 1 -> "key"
      [] format = 2 \/ format = 0 -> "unread"
      [] OTHER -> "unknown"

\* switch format
FormatCase(format) ==
    CASE format = 1 -> "key"
      [] format = 2 -> "unread"
      [] OTHER -> "unknown"

\* lines 498-499
FailStatus(r) ==
    /\ bodyCloses' = closeResponse(bodyCloses)
    /\ ret' = ReturnFail(httpRespToErrorResponse(r))
    /\ pc' = "failed"

\* lines 505-506
FailReadFormat(e) ==
    /\ bodyCloses' = closeResponse(bodyCloses)
    /\ ret' = ReturnFail(e)
    /\ pc' = "failed"

\* A mutant: the failed key read returns without closeResponse.
FailReadKeyLeaks(e) ==
    /\ bodyCloses' = bodyCloses
    /\ ret' = ReturnFail(e)
    /\ pc' = "failed"

\* lines 515-516
FailReadKey(e) ==
    /\ bodyCloses' = closeResponse(bodyCloses)
    /\ ret' = ReturnFail(e)
    /\ pc' = "failed"

\* line 520: the failed UnreadByte returns without closeResponse
FailUnread(e) ==
    /\ bodyCloses' = bodyCloses
    /\ ret' = ReturnFail(e)
    /\ pc' = "failed"

\* A mutant: the unknown format returns without closeResponse.
FailUnknownVersionLeaks ==
    /\ bodyCloses' = bodyCloses
    /\ ret' = ReturnFail(ErrUnknownVersion)
    /\ pc' = "failed"

\* lines 523-524
FailUnknownVersion ==
    /\ bodyCloses' = closeResponse(bodyCloses)
    /\ ret' = ReturnFail(ErrUnknownVersion)
    /\ pc' = "failed"

\* A mutant: a short read at the end of the stream is reported as EOF.
ReadFullErrPlainEOF(cnt, min, err) == IF cnt >= min THEN NoErr ELSE err

\* The error io.ReadFull (io.ReadAtLeast) returns once its loop has ended
\* with cnt of min bytes read and err from the last Read.
ReadFullErr(cnt, min, err) ==
    IF cnt >= min THEN NoErr
    ELSE IF cnt > 0 /\ err = EOF THEN ErrUnexpectedEOF
    ELSE err

\* Lines 467-502: the request is built and sent; a transport error or a
\* status other than 200 ends the call, else the body gets its reader.
Execute ==
    /\ pc = "start"
    /\ \E o \in executeMethod :
        /\ calls' = Append(calls, Request(d))
        /\ resp' = o.resp
        /\ IF o.err # NoErr THEN
                /\ ret' = ReturnFail(o.err)
                /\ pc' = "failed"
                /\ UNCHANGED << bodyCloses, bior >>
           ELSE IF StatusFails(o.resp.StatusCode) THEN
                /\ FailStatus(o.resp)
                /\ UNCHANGED bior
           ELSE
                /\ bior' = NewReaderSize(BufSize)
                /\ pc' = "format"
                /\ UNCHANGED << bodyCloses, ret >>
    /\ UNCHANGED << d, rdpos, key, n, received, lastErr, hw, out, info, got >>

\* Lines 503-525 and 528: the discriminator is read and the switch taken,
\* up to the key read of case 1.
ReadFormat ==
    /\ pc = "format"
    /\ \E o \in ReadByte(bior, rdpos) :
        /\ rdpos' = o.pos
        /\ IF o.err # NoErr THEN
                /\ bior' = o.b
                /\ FailReadFormat(o.err)
                /\ UNCHANGED << key, n >>
           ELSE IF FormatCase(o.c) = "key" THEN
                /\ bior' = o.b
                /\ key' = Some([i \in 1..KeyLen |-> 0])
                /\ n' = 0
                /\ pc' = "key"
                /\ UNCHANGED << bodyCloses, ret >>
           ELSE IF FormatCase(o.c) = "unread" THEN
                LET u == UnreadByte(o.b)
                IN  /\ bior' = u.b
                    /\ IF u.err # NoErr
                       THEN FailUnread(u.err)
                       ELSE /\ ret' = ReturnBody(key)
                            /\ pc' = "returned"
                            /\ UNCHANGED bodyCloses
                    /\ UNCHANGED << key, n >>
           ELSE
                /\ bior' = o.b
                /\ FailUnknownVersion
                /\ UNCHANGED << key, n >>
    /\ UNCHANGED << d, calls, resp, received, lastErr, hw, out, info, got >>

\* Lines 513-517 and 528: one turn of io.ReadFull's loop, a bior.Read into
\* key[n:], and what follows when the loop ends.
ReadKey ==
    /\ pc = "key"
    /\ \E o \in Read(bior, rdpos, KeyLen - n) :
        LET cnt == n + Len(o.data)
            filled == Some([i \in 1..KeyLen |->
                            IF i > n /\ i <= cnt THEN o.data[i - n]
                            ELSE key[1][i]])
            err == ReadFullErr(cnt, KeyLen, o.err)
        IN  /\ bior' = o.b
            /\ rdpos' = o.pos
            /\ n' = cnt
            /\ key' = filled
            /\ IF cnt < KeyLen /\ o.err = NoErr THEN
                    /\ pc' = "key"
                    /\ UNCHANGED << bodyCloses, ret >>
               ELSE IF err # NoErr THEN
                    FailReadKey(err)
               ELSE
                    /\ ret' = ReturnBody(filled)
                    /\ pc' = "returned"
                    /\ UNCHANGED bodyCloses
    /\ UNCHANGED << d, calls, resp, received, lastErr, hw, out, info, got >>

\* A mutant: the wrapper reads resp.Body, not the buffered reader.
WrapperReadBody(lenp) ==
    IF lenp = 0
    THEN { [b |-> bior, pos |-> rdpos, data |-> <<>>, err |-> NoErr] }
    ELSE { [b |-> bior, pos |-> rdpos + u.n, data |-> Chunk(rdpos, u.n),
            err |-> u.err] : u \in BodyRead(rdpos, lenp) }

\* closeWrapper.Read is the embedded Reader's: bior.Read.
WrapperRead(lenp) == Read(bior, rdpos, lenp)

\* closeWrapper.Close is the embedded Closer's: resp.Body.Close.
WrapperClose(count) == count + 1

\* The caller reads from the returned stream.
CallerRead ==
    /\ pc = "returned"
    /\ \E lenp \in CallerReadSizes :
        \E o \in WrapperRead(lenp) :
            /\ bior' = o.b
            /\ rdpos' = o.pos
            /\ received' = received \o o.data
            /\ lastErr' = o.err
    /\ UNCHANGED << pc, d, calls, resp, bodyCloses, key, n, ret, hw, out,
                    info, got >>

\* The caller closes the returned stream.
CallerClose ==
    /\ pc = "returned"
    /\ bodyCloses' = WrapperClose(bodyCloses)
    /\ pc' = "closed"
    /\ UNCHANGED << d, calls, resp, rdpos, bior, key, n, ret, received,
                    lastErr, hw, out, info, got >>

-----------------------------------------------------------------------------
(* The specification of Inspect and its caller. *)

NoHw == [Usage |-> <<>>]
NoOut == [op |-> "none", value |-> 0, panicked |-> FALSE]
NoInfo == [Version |-> "", Error |-> "", TimeStamp |-> 0, Perf |-> [Drives |-> <<>>]]
NoGot == [op |-> "none", value |-> ""]

Init ==
    /\ pc = "start"
    /\ d \in InspectOptions
    /\ calls = <<>>
    /\ resp = NoResp
    /\ rdpos = 0
    /\ bodyCloses = 0
    /\ bior = NoReader
    /\ key = Nil
    /\ n = 0
    /\ ret = NoReturn
    /\ received = <<>>
    /\ lastErr = NoErr
    /\ hw = NoHw
    /\ out = NoOut
    /\ info = NoInfo
    /\ got = NoGot

Next ==
    \/ Execute
    \/ ReadFormat
    \/ ReadKey
    \/ CallerRead
    \/ CallerClose

Spec == Init /\ [][Next]_vars

-----------------------------------------------------------------------------
(* ServerDiskHwInfo and its capacity accessors, lines 251-282.  Usage is a *)
(* list of pointers: an entry is Nil or Some(UsageStat).  The counters of  *)
(* the model are far below 2^64, so no sum wraps.                          *)

UsageStats ==
    { Nil,
      Some([Total |-> 100, Free |-> 40, Used |-> 60]),
      Some([Total |-> 50, Free |-> 10, Used |-> 40]),
      Some([Total |-> 0, Free |-> 0, Used |-> 0]) }

RECURSIVE SeqsUpTo(_, _)
SeqsUpTo(S, len) ==
    IF len = 0 THEN { <<>> }
    ELSE LET shorter == SeqsUpTo(S, len - 1)
         IN  shorter \cup { Append(q, x) : q \in shorter, x \in S }

ServerDiskHwInfos == { [Usage |-> u] : u \in SeqsUpTo(UsageStats, MaxUsage) }

\* for _, u := range s.Usage { capacity += u.<field> }: reading a field of
\* a nil entry is a nil pointer dereference, and the call panics there.
RECURSIVE RangeSum(_, _, _)
RangeSum(usage, field, capacity) ==
    IF usage = <<>> THEN [value |-> capacity, panicked |-> FALSE]
    ELSE IF usage[1] = Nil THEN [value |-> capacity, panicked |-> TRUE]
    ELSE RangeSum(Tail(usage), field, capacity + usage[1][1][field])

GetTotalCapacity(s) == RangeSum(s.Usage, "Total", 0)
GetTotalFreeCapacity(s) == RangeSum(s.Usage, "Free", 0)
GetTotalUsedCapacity(s) == RangeSum(s.Usage, "Used", 0)

Result(op, res) == [op |-> op, value |-> res.value, panicked |-> res.panicked]

CallGetTotalCapacity ==
    /\ out' = Result("GetTotalCapacity", GetTotalCapacity(hw))
    /\ UNCHANGED << hw, info, got, inspectVars >>

CallGetTotalFreeCapacity ==
    /\ out' = Result("GetTotalFreeCapacity", GetTotalFreeCapacity(hw))
    /\ UNCHANGED << hw, info, got, inspectVars >>

CallGetTotalUsedCapacity ==
    /\ out' = Result("GetTotalUsedCapacity", GetTotalUsedCapacity(hw))
    /\ UNCHANGED << hw, info, got, inspectVars >>

InitCapacity ==
    /\ pc = "start"
    /\ d = CHOOSE o \in InspectOptions : o.PublicKey = Nil
    /\ calls = <<>>
    /\ resp = NoResp
    /\ rdpos = 0
    /\ bodyCloses = 0
    /\ bior = NoReader
    /\ key = Nil
    /\ n = 0
    /\ ret = NoReturn
    /\ received = <<>>
    /\ lastErr = NoErr
    /\ hw \in ServerDiskHwInfos
    /\ out = NoOut
    /\ info = NoInfo
    /\ got = NoGot

NextCapacity ==
    \/ CallGetTotalCapacity
    \/ CallGetTotalFreeCapacity
    \/ CallGetTotalUsedCapacity

SpecCapacity == InitCapacity /\ [][NextCapacity]_vars

-----------------------------------------------------------------------------
(* HealthInfoV2 and its accessors, lines 43-52 and 71-87.  Of the nested   *)
(* data the report keeps Perf.Drives, one entry a node, each with the      *)
(* node's own Error; a TimeStamp is a number of seconds.                   *)

\* The longest Perf.Drives list of a report.
MaxNodes == 2

ErrorTexts == { "", "disk offline" }
TimeStamps == { 0, 1700000000 }
DrivePerfInfos == { [Error |-> e] : e \in ErrorTexts }

HealthInfoV2s ==
    { [Version |-> "2", Error |-> e, TimeStamp |-> t, Perf |-> [Drives |-> ds]] :
        e \in ErrorTexts \cup { " " }, t \in TimeStamps,
        ds \in SeqsUpTo(DrivePerfInfos, MaxNodes) }

\* A mutant: a node's error makes the status "error" too.
GetStatusOfNodes(i) ==
    IF i.Error # "" \/ \E k \in 1..Len(i.Perf.Drives) : i.Perf.Drives[k].Error # ""
    THEN "error"
    ELSE "success"

GetError(i) == i.Error

GetStatus(i) == IF i.Error # "" THEN "error" ELSE "success"

GetTimestamp(i) == i.TimeStamp

\* The receiver of each accessor is a copy of the report (a value
\* receiver): the call leaves info as it is.
CallGetError ==
    /\ got' = [op |-> "GetError", value |-> GetError(info)]
    /\ UNCHANGED << info, hw, out, inspectVars >>

CallGetStatus ==
    /\ got' = [op |-> "GetStatus", value |-> GetStatus(info)]
    /\ UNCHANGED << info, hw, out, inspectVars >>

CallGetTimestamp ==
    /\ got' = [op |-> "GetTimestamp", value |-> GetTimestamp(info)]
    /\ UNCHANGED << info, hw, out, inspectVars >>

InitHealth ==
    /\ pc = "start"
    /\ d = CHOOSE o \in InspectOptions : o.PublicKey = Nil
    /\ calls = <<>>
    /\ resp = NoResp
    /\ rdpos = 0
    /\ bodyCloses = 0
    /\ bior = NoReader
    /\ key = Nil
    /\ n = 0
    /\ ret = NoReturn
    /\ received = <<>>
    /\ lastErr = NoErr
    /\ hw = NoHw
    /\ out = NoOut
    /\ info \in HealthInfoV2s
    /\ got = NoGot

NextHealth ==
    \/ CallGetError
    \/ CallGetStatus
    \/ CallGetTimestamp

SpecHealth == InitHealth /\ [][NextHealth]_vars

-----------------------------------------------------------------------------
(* What the properties below speak of. *)

Returned == pc \in { "failed", "returned", "closed" }
Succeeded == pc \in { "returned", "closed" }
Got200 == resp.present /\ resp.StatusCode = StatusOK
Body == resp.Body

IsPrefix(s, t) == Len(s) <= Len(t) /\ s = SubSeq(t, 1, Len(s))

\* A body [1] ++ K ++ P with K of 32 bytes, and its K and P.
Format1Body == Got200 /\ Len(Body) >= 1 + KeyLen /\ Body[1] = 1
KeyOf(b) == SubSeq(b, 2, 1 + KeyLen)
PayloadOf(b) == SubSeq(b, 2 + KeyLen, Len(b))

Format2Body == Got200 /\ Len(Body) >= 1 /\ Body[1] = 2
UnknownFormatBody == Got200 /\ Len(Body) >= 1 /\ Body[1] \notin { 1, 2 }
NoFormatBody == Got200 /\ Len(Body) = 0
TruncatedKeyBody == Got200 /\ Len(Body) >= 1 /\ Body[1] = 1 /\ Len(Body) < 1 + KeyLen

FailedWithNothing ==
    pc = "failed" /\ ret.err # NoErr /\ ret.key = Nil /\ ~ret.c

\* The inverses of the request's encodings, to read a sent body back.
B64Val(c) == IndexOf(B64Alphabet, c) - 1

RECURSIVE DecodeString(_)
DecodeString(cs) ==
    IF cs = <<>> THEN <<>>
    ELSE
        LET b1 == (B64Val(cs[1]) * 4) + (B64Val(cs[2]) \div 16)
        IN  IF cs[3] = "=" THEN << b1 >>
            ELSE LET b2 == ((B64Val(cs[2]) % 16) * 16) + (B64Val(cs[3]) \div 4)
                 IN  IF cs[4] = "=" THEN << b1, b2 >>
                     ELSE << b1, b2, ((B64Val(cs[3]) % 4) * 64) + B64Val(cs[4]) >>
                          \o DecodeString(SubSeq(cs, 5, Len(cs)))

HexVal(h) == IndexOf(HexDigits, h) - 1

\* The character of a code: CharCode read backwards.
CodeChar(code) ==
    IF code \in 48..57 THEN Digits[code - 47]
    ELSE IF code \in 65..90 THEN Upper[code - 64]
    ELSE IF code \in 97..122 THEN Lower[code - 96]
    ELSE CASE code = 32 -> " "
           [] code = 37 -> "%"
           [] code = 38 -> "&"
           [] code = 43 -> "+"
           [] code = 45 -> "-"
           [] code = 46 -> "."
           [] code = 47 -> "/"
           [] code = 61 -> "="
           [] code = 95 -> "_"
           [] code = 126 -> "~"

RECURSIVE QueryUnescape(_)
QueryUnescape(s) ==
    IF s = <<>> THEN <<>>
    ELSE IF s[1] = "+" THEN << " " >> \o QueryUnescape(Tail(s))
    ELSE IF s[1] = "%" THEN
        << CodeChar((HexVal(s[2]) * 16) + HexVal(s[3])) >>
        \o QueryUnescape(SubSeq(s, 4, Len(s)))
    ELSE << s[1] >> \o QueryUnescape(Tail(s))

\* The pieces of s between the separators sep, in order.
RECURSIVE SplitFrom(_, _, _, _)
SplitFrom(s, sep, piece, pieces) ==
    IF s = <<>> THEN Append(pieces, piece)
    ELSE IF s[1] = sep THEN SplitFrom(Tail(s), sep, <<>>, Append(pieces, piece))
    ELSE SplitFrom(Tail(s), sep, Append(piece, s[1]), pieces)

Split(s, sep) == SplitFrom(s, sep, <<>>, <<>>)

\* The (key, value) pairs of a form-encoded body, in its order.
ParsePairs(s) ==
    LET parts == Split(s, "&")
    IN  [i \in 1..Len(parts) |->
            LET kv == Split(parts[i], "=")
            IN  << QueryUnescape(kv[1]), QueryUnescape(kv[2]) >>]

-----------------------------------------------------------------------------
(* C1.  The response body is released exactly once: never twice; not while *)
(* Inspect still reads it or the caller holds the stream; once when        *)
(* Inspect has failed on a response; once when the caller has closed the   *)
(* stream, however much of it the caller read.                             *)
C1_ReleasedExactlyOnce ==
    /\ bodyCloses <= 1
    /\ pc \in { "format", "key", "returned" } => bodyCloses = 0
    /\ (pc = "failed" /\ resp.present) => bodyCloses = 1
    /\ pc = "closed" => bodyCloses = 1

\* The caller read a part of the payload and closed the stream.
C1_Witness ==
    /\ pc = "closed"
    /\ bodyCloses = 1
    /\ Len(received) > 0
    /\ rdpos < Len(Body)

(* C2.  On a 200 response [1] ++ K ++ P with K of 32 bytes Inspect does    *)
(* not fail, returns K as the key, and the stream gives P: what the caller *)
(* has read is always the start of P, and all of P once a Read reported    *)
(* the end, whatever the sizes of the reads.                               *)
C2_KeyThenPayload ==
    Format1Body =>
        /\ pc # "failed"
        /\ Succeeded => ret = [key |-> Some(KeyOf(Body)), c |-> TRUE, err |-> NoErr]
        /\ IsPrefix(received, PayloadOf(Body))
        /\ lastErr # NoErr => received = PayloadOf(Body)

\* The caller read a payload of MaxPayload bytes to its end.
C2_Witness ==
    /\ Format1Body
    /\ pc = "returned"
    /\ lastErr = EOF
    /\ Len(PayloadOf(Body)) = MaxPayload
    /\ received = PayloadOf(Body)

(* C3.  On a 200 response whose first byte is 2 Inspect does not fail,     *)
(* returns no key, and the stream gives the whole body from its first      *)
(* byte, the discriminator 2, on.                                          *)
C3_WholeBodyRestored ==
    Format2Body =>
        /\ pc # "failed"
        /\ Succeeded => ret = [key |-> Nil, c |-> TRUE, err |-> NoErr]
        /\ IsPrefix(received, Body)
        /\ lastErr # NoErr => received = Body

\* The caller read a format-2 body, discriminator first, to its end.
C3_Witness ==
    /\ Format2Body
    /\ pc = "returned"
    /\ lastErr = EOF
    /\ Len(Body) = 1 + MaxPayload
    /\ received = Body
    /\ received[1] = 2

(* C4.  When Inspect has returned, the key is present exactly if the call  *)
(* succeeded and the discriminator was 1, and a present key has 32 bytes;  *)
(* so every failing return gives no key.                                   *)
C4_KeyIffFormat1 ==
    Returned =>
        /\ ret.key # Nil <=>
              (ret.err = NoErr /\ Got200 /\ Len(Body) >= 1 /\ Body[1] = 1)
        /\ ret.key # Nil => Len(ret.key[1]) = KeyLen

\* Inspect failed in the key read with a part of the key in its buffer.
C4_Witness ==
    /\ pc = "failed"
    /\ key # Nil
    /\ n > 0
    /\ n < KeyLen
    /\ ret.key = Nil

(* C5.  On a 200 response whose first byte is neither 1 nor 2, Inspect,    *)
(* once it has read that byte, has failed with an error, no key and no     *)
(* stream, and has released the response.                                  *)
C5_UnknownFormatFails ==
    (UnknownFormatBody /\ pc # "format") =>
        /\ FailedWithNothing
        /\ bodyCloses = 1

\* Inspect failed on the discriminator 255.
C5_Witness ==
    /\ UnknownFormatBody
    /\ Body[1] = 255
    /\ pc = "failed"
    /\ ret.err = ErrUnknownVersion
    /\ bodyCloses = 1

(* C6.  On a 200 response with no discriminator byte, or with              *)
(* discriminator 1 and fewer than 32 bytes after it, Inspect never returns *)
(* a stream: it is still reading the prefix, fewer than 32 key bytes read, *)
(* or it has failed with no key and no stream and released the response.   *)
C6_PrefixAllOrNothing ==
    (NoFormatBody \/ TruncatedKeyBody) =>
        /\ pc \in { "format", "key", "failed" }
        /\ pc = "key" => n < KeyLen
        /\ pc = "failed" => (FailedWithNothing /\ bodyCloses = 1)

\* Inspect failed with 31 of the 32 key bytes read.
C6_Witness ==
    /\ TruncatedKeyBody
    /\ pc = "failed"
    /\ n = KeyLen - 1
    /\ ret.key = Nil
    /\ bodyCloses = 1

(* C7, as claimed.  An unknown discriminator and a truncated key read      *)
(* fail with one and the same error, the unknown-format error, and release *)
(* the response.                                                           *)
C7_SameFormatError ==
    (pc = "failed" /\ (UnknownFormatBody \/ TruncatedKeyBody)) =>
        /\ ret.err = ErrUnknownVersion
        /\ bodyCloses = 1

(* C7, as amended.  An unknown discriminator fails with the "unknown data  *)
(* version" error; a truncated key read fails with the error of the read:  *)
(* EOF when the body ended before any key byte, unexpected EOF when it     *)
(* ended after 1 to 31 key bytes, the body's I/O error when the read       *)
(* broke off; in each case the response is released.                       *)
C7_FramingErrors ==
    /\ (pc = "failed" /\ UnknownFormatBody) =>
            (ret.err = ErrUnknownVersion /\ bodyCloses = 1)
    /\ (pc = "failed" /\ TruncatedKeyBody) =>
            /\ ret.err = IF resp.endErr # EOF THEN resp.endErr
                         ELSE IF Len(Body) = 1 THEN EOF
                         ELSE ErrUnexpectedEOF
            /\ bodyCloses = 1

\* Inspect failed with unexpected EOF on a key cut short.
C7_Witness ==
    /\ TruncatedKeyBody
    /\ pc = "failed"
    /\ ret.err = ErrUnexpectedEOF
    /\ bodyCloses = 1

(* C8.  Inspect calls the executor once.  Without a public key the call is *)
(* a GET with volume and file as the query values, no body and no header;  *)
(* with a public key, an empty one too, it is a POST with no query values, *)
(* the Content-Type application/x-www-form-urlencoded and a form-encoded   *)
(* body that reads back as file, public-key (the base64 text of the key)   *)
(* and volume.                                                             *)
C8_RequestShape ==
    /\ pc = "start" => calls = <<>>
    /\ pc # "start" =>
        /\ Len(calls) = 1
        /\ calls[1].reqData.relPath = RelPath
        /\ IF d.PublicKey = Nil THEN
                /\ calls[1].method = MethodGet
                /\ calls[1].reqData.queryValues =
                        Some([k \in { Volume, File } |->
                                IF k = Volume THEN d.Volume ELSE d.File])
                /\ calls[1].reqData.content = Nil
                /\ calls[1].reqData.customHeaders = Nil
           ELSE
                /\ calls[1].method = MethodPost
                /\ calls[1].reqData.queryValues = Nil
                /\ calls[1].reqData.customHeaders =
                        Some([h \in { ContentType } |-> FormURLEncoded])
                /\ calls[1].reqData.content # Nil
                /\ \A pairs \in { ParsePairs(calls[1].reqData.content[1]) } :
                       /\ Len(pairs) = 3
                       /\ pairs[1] = << File, d.File >>
                       /\ pairs[2][1] = PublicKeyParam
                       /\ DecodeString(pairs[2][2]) = d.PublicKey[1]
                       /\ pairs[3] = << Volume, d.Volume >>

\* A call with an empty, non-nil public key was sent as a POST.
C8_Witness ==
    /\ pc # "start"
    /\ d.PublicKey = Some(<<>>)
    /\ Len(calls) = 1
    /\ calls[1].method = MethodPost

(* C9.  The executor is called at most once.  After a transport error or a *)
(* response whose status is not 200, Inspect has failed with an error, no  *)
(* key and no stream, no byte of the body was read and no reader made, and *)
(* the response, when there is one, is released.                           *)
C9_NoRetryNoRead ==
    /\ Len(calls) <= 1
    /\ (pc # "start" /\ ~Got200) =>
        /\ Len(calls) = 1
        /\ FailedWithNothing
        /\ ret.err = IF resp.present THEN ErrResponse ELSE ErrTransport
        /\ rdpos = 0
        /\ ~bior.present
        /\ bodyCloses = IF resp.present THEN 1 ELSE 0

\* Inspect failed on a 206 response and released it.
C9_Witness ==
    /\ pc = "failed"
    /\ resp.present
    /\ resp.StatusCode = 206
    /\ ret.err = ErrResponse
    /\ bodyCloses = 1

(* C10, as claimed.  Each capacity accessor returns, without a panic, the  *)
(* sum of its counter over the entries of Usage, a nil entry counting as   *)
(* zero.                                                                   *)
RECURSIVE SumOf(_, _)
SumOf(usage, field) ==
    IF usage = <<>> THEN 0
    ELSE (IF usage[1] = Nil THEN 0 ELSE usage[1][1][field])
         + SumOf(Tail(usage), field)

FieldOf(op) ==
    CASE op = "GetTotalCapacity" -> "Total"
      [] op = "GetTotalFreeCapacity" -> "Free"
      [] op = "GetTotalUsedCapacity" -> "Used"

C10_CapacitySums ==
    out.op # "none" =>
        /\ ~out.panicked
        /\ out.value = SumOf(hw.Usage, FieldOf(out.op))

(* C11.  GetStatus gives "error" exactly if the report's own Error is not *)
(* empty and "success" otherwise, whatever errors its nodes carry;         *)
(* GetError and GetTimestamp give the Error and TimeStamp fields; and no   *)
(* accessor changes the report.                                            *)
C11_Results ==
    /\ got.op = "GetStatus" =>
            /\ got.value \in { "error", "success" }
            /\ got.value = "error" <=> info.Error # ""
    /\ got.op = "GetError" => got.value = info.Error
    /\ got.op = "GetTimestamp" => got.value = info.TimeStamp

C11_StatusFromTopLevelError == []C11_Results /\ [][info' = info]_vars

\* GetStatus gave "success" for a report without an error of its own, one
\* of whose nodes has an error.
C11_Witness ==
    /\ got.op = "GetStatus"
    /\ got.value = "success"
    /\ info.Error = ""
    /\ \E k \in 1..Len(info.Perf.Drives) : info.Perf.Drives[k].Error # ""

====
